---- MODULE Spec2Model ----
(***************************************************************************)
(* A model of tsh.c, a tiny shell with job control.                        *)
(*                                                                         *)
(* The shell is one control thread (main -> eval -> builtin_cmd / do_bgfg  *)
(* / waitfg) that the kernel interrupts with signal handlers               *)
(* (sigchld_handler, sigint_handler, sigtstp_handler, sigquit_handler).    *)
(* Both read and write the global job table jobs[MAXJOBS].                 *)
(*                                                                         *)
(* The kernel side (children, their wait statuses, the shell's pending     *)
(* signals and signal mask) is modelled as far as the shell's system calls *)
(* observe it: fork, kill(-pid, sig), waitpid, sigprocmask.                *)
(***************************************************************************)
EXTENDS Integers, Sequences, FiniteSets, TLC

(***************************************************************************)
(* Bounds of the model.  tsh.c sets MAXJOBS to 16; the model keeps the     *)
(* name and scales the table down.  NPIDS is the number of process ids the *)
(* kernel hands out (a fork beyond it fails).                              *)
(***************************************************************************)
MAXJOBS == 2

NPIDS == MAXJOBS + 1

\* Job states (tsh.c lines 22-25)
UNDEF == 0

FG == 1

BG == 2

ST == 3

Slots == 1..MAXJOBS

Pids == 1..NPIDS

\* a struct job_t * is a slot index; NULL is 0
NULL == 0

(***************************************************************************)
(* Text.  A string is a sequence of one-character strings, a command line  *)
(* is the sequence of its words (what parseline leaves in argv).           *)
(***************************************************************************)
Digits == <<"0", "1", "2", "3", "4", "5", "6", "7", "8", "9">>

IsDigit(c) == \E d \in 1..10 : Digits[d] = c

DigitVal(c) == (CHOOSE d \in 1..10 : Digits[d] = c) - 1

\* the value of the leading run of digits of s, continuing from acc
RECURSIVE atoi_digits(_, _)
atoi_digits(s, acc) ==
    IF s = <<>> \/ ~IsDigit(Head(s)) THEN acc
    ELSE atoi_digits(Tail(s), acc * 10 + DigitVal(Head(s)))

\* atoi(3): optional sign, then the leading digits; 0 when there are none
atoi(s) ==
    IF s = <<>> THEN 0
    ELSE IF Head(s) = "-" THEN 0 - atoi_digits(Tail(s), 0)
    ELSE IF Head(s) = "+" THEN atoi_digits(Tail(s), 0)
    ELSE atoi_digits(s, 0)

\* parseline returns argc, the number of words it put in argv
parseline(cmdline) == Len(cmdline)

W_quit == <<"q", "u", "i", "t">>

W_jobs == <<"j", "o", "b", "s">>

W_bg == <<"b", "g">>

W_fg == <<"f", "g">>

(***************************************************************************)
(* The job table and its helper routines.                                  *)
(***************************************************************************)
EmptyJob == [pid |-> 0, jid |-> 0, state |-> UNDEF, cmdline |-> <<>>]

clearjob(J, i) == [J EXCEPT ![i] = EmptyJob]

initjobs == [i \in Slots |-> EmptyJob]

\* freejid scanning from the top: the largest free job id
freejid_largest(J) ==
    LET taken == {J[i].jid : i \in {k \in Slots : J[k].jid # 0}}
        avail == {n \in 1..MAXJOBS : n \notin taken}
    IN  IF avail = {} THEN 0
        ELSE CHOOSE n \in avail : \A m \in avail : n >= m

\* freejid as a count: one more than the number of jobs in the table
freejid_count(J) ==
    LET n == Cardinality({k \in Slots : J[k].jid # 0}) + 1
    IN  IF n > MAXJOBS THEN 0 ELSE n

\* freejid without the MAXJOBS limit on the ids it tries
freejid_unbounded(J) ==
    LET taken == {J[i].jid : i \in {k \in Slots : J[k].jid # 0}}
    IN  CHOOSE n \in 1..(MAXJOBS + 1) :
            n \notin taken /\ \A m \in 1..(n - 1) : m \in taken

\* smallest job id in 1..MAXJOBS that no slot carries, 0 if there is none
freejid(J) ==
    LET taken == {J[i].jid : i \in {k \in Slots : J[k].jid # 0}}
        avail == {n \in 1..MAXJOBS : n \notin taken}
    IN  IF avail = {} THEN 0
        ELSE CHOOSE n \in avail : \A m \in avail : n <= m

\* first slot whose pid field is 0, NULL if none
FirstFreeSlot(J) ==
    LET fr == {i \in Slots : J[i].pid = 0}
    IN  IF fr = {} THEN NULL ELSE CHOOSE i \in fr : \A k \in fr : i <= k

\* addjob: the table after the call, the value returned and what it prints
addjob(J, pid, state, cmdline) ==
    IF pid < 1 THEN [jobs |-> J, ret |-> 0, msg |-> "none"]
    ELSE IF freejid(J) = 0
         THEN [jobs |-> J, ret |-> 0, msg |-> "too_many_jobs"]
    ELSE IF FirstFreeSlot(J) = NULL
         THEN [jobs |-> J, ret |-> 0, msg |-> "none"]
    ELSE [jobs |-> [J EXCEPT ![FirstFreeSlot(J)] =
                        [pid |-> pid, jid |-> freejid(J), state |-> state,
                         cmdline |-> cmdline]],
          ret |-> 1, msg |-> "none"]

\* first slot whose pid field equals pid, NULL if none or pid < 1
getjobpid(J, pid) ==
    LET m == {i \in Slots : J[i].pid = pid}
    IN  IF pid < 1 \/ m = {} THEN NULL
        ELSE CHOOSE i \in m : \A k \in m : i <= k

\* first slot whose jid field equals jid, NULL if none or jid < 1
getjobjid(J, jid) ==
    LET m == {i \in Slots : J[i].jid = jid}
    IN  IF jid < 1 \/ m = {} THEN NULL
        ELSE CHOOSE i \in m : \A k \in m : i <= k

\* deletejob: clears the first slot holding pid
deletejob(J, pid) ==
    IF getjobpid(J, pid) = NULL THEN [jobs |-> J, ret |-> 0]
    ELSE [jobs |-> clearjob(J, getjobpid(J, pid)), ret |-> 1]

\* pid of the first slot in state FG, 0 if none
fgpid(J) ==
    LET m == {i \in Slots : J[i].state = FG}
    IN  IF m = {} THEN 0
        ELSE J[CHOOSE i \in m : \A k \in m : i <= k].pid

pid2jid(J, pid) ==
    IF getjobpid(J, pid) = NULL THEN 0 ELSE J[getjobpid(J, pid)].jid

\* listjobs: one line per slot whose pid is not 0, in slot order
RECURSIVE listjobs_from(_, _)
listjobs_from(J, i) ==
    IF i > MAXJOBS THEN <<>>
    ELSE (IF J[i].pid # 0
          THEN <<[jid |-> J[i].jid, pid |-> J[i].pid, state |-> J[i].state,
                  cmdline |-> J[i].cmdline]>>
          ELSE <<>>) \o listjobs_from(J, i + 1)

listjobs(J) == listjobs_from(J, 1)


(***************************************************************************)
(* Signals, wait statuses, console output.                                 *)
(***************************************************************************)
Tracked == {"SIGCHLD", "SIGINT", "SIGTSTP"}

AllSigs == Tracked \cup {"SIGQUIT"}

NoStatus == [kind |-> "none", sig |-> ""]

\* what one step wrote to the console: a message kind and its arguments
Msg(m, jid, pid, sig, text) ==
    [msg |-> m, jid |-> jid, pid |-> pid, sig |-> sig, text |-> text,
     list |-> <<>>]

NoOut == Msg("none", 0, 0, "", <<>>)

\* the text after the leading % of a word (the &argv[1][1] of do_bgfg)
AfterPercent(w) == Tail(w)

(***************************************************************************)
(* The kernel's view of one child: st is none (no such process), run,      *)
(* stop or zomb; ev is the stop/continue report waitpid has not yet        *)
(* returned; sig is the signal of the stop or of the death ("" for a       *)
(* normal exit); pint is a SIGINT pending on a stopped process.            *)
(***************************************************************************)
NoProc == [st |-> "none", ev |-> "none", sig |-> "", pint |-> FALSE]

NewProc == [st |-> "run", ev |-> "none", sig |-> "", pint |-> FALSE]

Zombie(sig) == [st |-> "zomb", ev |-> "none", sig |-> sig, pint |-> FALSE]

\* the process after signal sig reaches it (default dispositions)
Signalled(c, sig) ==
    IF sig = "SIGCONT" THEN
        (IF c.st = "stop"
         THEN (IF c.pint THEN Zombie("SIGINT")
               ELSE [st |-> "run", ev |-> "continued", sig |-> "",
                     pint |-> FALSE])
         ELSE c)
    ELSE IF sig = "SIGINT" THEN
        (IF c.st = "run" THEN Zombie("SIGINT")
         ELSE IF c.st = "stop" THEN [c EXCEPT !.pint = TRUE]
         ELSE c)
    ELSE IF sig = "SIGTSTP" THEN
        (IF c.st = "run"
         THEN [st |-> "stop", ev |-> "stopped", sig |-> "SIGTSTP",
               pint |-> FALSE]
         ELSE c)
    ELSE c

\* kill(-pid, sig): fails (ESRCH) when no process group pid exists
KillFails(P, pid) == pid \notin Pids \/ P[pid].st = "none"

KillGroup(P, pid, sig) ==
    IF KillFails(P, pid) THEN P
    ELSE [P EXCEPT ![pid] = Signalled(P[pid], sig)]

\* waitpid options of the two callers
Reportable(c, untraced, continued) ==
    \/ c.st = "zomb"
    \/ untraced /\ c.st = "stop" /\ c.ev = "stopped"
    \/ continued /\ c.st = "run" /\ c.ev = "continued"

\* the status waitpid stores for a reportable child
StatusOf(c) ==
    IF c.st = "zomb"
    THEN (IF c.sig = "" THEN [kind |-> "exited", sig |-> ""]
          ELSE [kind |-> "signaled", sig |-> c.sig])
    ELSE IF c.st = "stop" THEN [kind |-> "stopped", sig |-> c.sig]
    ELSE [kind |-> "continued", sig |-> ""]

\* the child after waitpid returned its status: a zombie is reaped, a
\* stop or continue report is consumed
Waited(c) == IF c.st = "zomb" THEN NoProc ELSE [c EXCEPT !.ev = "none"]


(***************************************************************************)
(* State.                                                                  *)
(*   jobs      the job table                                               *)
(*   pc, loc   the control thread: where it is, and the locals of eval,    *)
(*             do_bgfg and waitfg                                          *)
(*   stack     the signal handlers that are running, innermost last        *)
(*   mask      the signals blocked in the shell                            *)
(*   pending   the signals raised for the shell and not yet delivered      *)
(*   proc      the shell's children as the kernel sees them                *)
(*   out, ret, sent   what the last step did: what it printed, what the    *)
(*             job-table routine it called returned (-1: none called), and *)
(*             the kill it made                                            *)
(*   exitcode  -1 while the shell runs, then the status it exited with     *)
(***************************************************************************)
VARIABLES jobs, pc, loc, stack, mask, pending, proc, out, ret, sent, exitcode

vars ==
    <<jobs, pc, loc, stack, mask, pending, proc, out, ret, sent, exitcode>>

\* the kill(-pid, sig) call of a step
NoKill == [pid |-> 0, sig |-> ""]

Kill(pid, sig) == [pid |-> pid, sig |-> sig]

\* a step that prints nothing, calls no job-table routine that returns a
\* value, and sends no signal
Silent == out' = NoOut /\ ret' = -1 /\ sent' = NoKill

NoLoc == [pid |-> 0, bg |-> 0, cmdline |-> <<>>, argv0 |-> <<>>,
          job |-> NULL, status |-> NoStatus, retpc |-> "prompt"]

\* single-digit numerals, and the words typed after bg / fg
Numeral(n) == <<Digits[n + 1]>>

NumWords ==
    {Numeral(n) : n \in 0..NPIDS}
        \cup {<<"-", "1">>, <<"x">>, <<"1", "x">>}

ArgWords == NumWords \cup {<<"%">> \o w : w \in NumWords} \cup {<<"%">>}

\* the command lines that start a program (not a builtin); the & is an
\* argument like any other to parseline
Programs == {<< <<"v", "i">>, <<"&">> >>}

CmdLines ==
    {<<>>, <<W_quit>>, <<W_jobs>>, <<W_bg>>, <<W_fg>>}
        \cup {<<w, a>> : w \in {W_bg, W_fg}, a \in ArgWords}
        \cup Programs

Running == exitcode = -1

\* the control thread runs only while no handler is on the stack
MainAt(l) == Running /\ stack = <<>> /\ pc = l

\* a status change of a child raises SIGCHLD for the shell
Raise(P) ==
    IF \E p \in Pids : P[p].st # proc[p].st
    THEN pending \cup {"SIGCHLD"} ELSE pending

Init ==
    /\ jobs = initjobs
    /\ pc = "prompt"
    /\ loc = NoLoc
    /\ stack = <<>>
    /\ mask = {}
    /\ pending = {}
    /\ proc = [p \in Pids |-> NoProc]
    /\ out = NoOut
    /\ ret = -1
    /\ sent = NoKill
    /\ exitcode = -1

\* exit(code) after printing m: the shell and its memory are gone, and
\* its children are no longer its own
Exit(code, m) ==
    /\ exitcode' = code
    /\ out' = m
    /\ ret' = -1
    /\ sent' = NoKill
    /\ jobs' = initjobs
    /\ pc' = "exited"
    /\ loc' = NoLoc
    /\ stack' = <<>>
    /\ mask' = {}
    /\ pending' = {}
    /\ proc' = [p \in Pids |-> NoProc]

(***************************************************************************)
(* main and eval                                                           *)
(***************************************************************************)
\* an empty line: argv[0] == NULL, eval returns
EvalEmpty(cmdline) ==
    /\ MainAt("prompt")
    /\ parseline(cmdline) = 0
    /\ Silent
    /\ UNCHANGED <<jobs, pc, loc, stack, mask, pending, proc, exitcode>>

\* the quit builtin: exit(0)
Quit(cmdline) ==
    /\ MainAt("prompt")
    /\ parseline(cmdline) # 0
    /\ cmdline[1] = W_quit
    /\ Exit(0, NoOut)

\* end of input at the prompt: exit(0)
Eof ==
    /\ MainAt("prompt")
    /\ Exit(0, NoOut)

\* the jobs builtin
BuiltinJobs(cmdline) ==
    /\ MainAt("prompt")
    /\ parseline(cmdline) # 0
    /\ cmdline[1] = W_jobs
    /\ out' = [Msg("jobs", 0, 0, "", <<>>) EXCEPT !.list = listjobs(jobs)]
    /\ ret' = -1
    /\ sent' = NoKill
    /\ UNCHANGED <<jobs, pc, loc, stack, mask, pending, proc, exitcode>>

IsBuiltin(w) == w \in {W_quit, W_jobs, W_bg, W_fg}

\* not a builtin: block SIGCHLD, SIGINT and SIGTSTP (eval, lines 156-160)
EvalBlock(cmdline) ==
    /\ MainAt("prompt")
    /\ parseline(cmdline) # 0
    /\ ~IsBuiltin(cmdline[1])
    /\ mask' = mask \cup Tracked
    /\ loc' = [NoLoc EXCEPT !.cmdline = cmdline, !.bg = parseline(cmdline),
                            !.retpc = "eval_unblock"]
    /\ pc' = "eval_fork"
    /\ Silent
    /\ UNCHANGED <<jobs, stack, pending, proc, exitcode>>

\* fork(): a new child with an unused pid, or -1
EvalFork ==
    /\ MainAt("eval_fork")
    /\ \/ \E p \in Pids :
            /\ proc[p].st = "none"
            /\ proc' = [proc EXCEPT ![p] = NewProc]
            /\ loc' = [loc EXCEPT !.pid = p]
       \/ /\ loc' = [loc EXCEPT !.pid = -1]
          /\ UNCHANGED proc
    /\ pc' = "eval_addjob"
    /\ Silent
    /\ UNCHANGED <<jobs, stack, mask, pending, exitcode>>

\* addjob(jobs, pid, bg ? BG : FG, cmdline)
EvalAddjob ==
    /\ MainAt("eval_addjob")
    /\ LET r == addjob(jobs, loc.pid, IF loc.bg # 0 THEN BG ELSE FG,
                       loc.cmdline)
       IN  /\ jobs' = r.jobs
           /\ ret' = r.ret
           /\ out' = Msg(r.msg, 0, 0, "", <<>>)
    /\ sent' = NoKill
    /\ pc' = "eval_after"
    /\ UNCHANGED <<loc, stack, mask, pending, proc, exitcode>>

\* waitfg's entry: the pid check of lines 313-316
WaitfgEntry(pid, retpc) ==
    IF pid < 1
    THEN /\ out' = Msg("waitfg_invalid_pid", 0, 0, "", <<>>)
         /\ pc' = retpc
         /\ loc' = IF retpc = "prompt" THEN NoLoc ELSE loc
    ELSE /\ out' = NoOut
         /\ pc' = "waitfg_wait"
         /\ loc' = [loc EXCEPT !.pid = pid, !.retpc = retpc]

\* lines 175-179: waitfg(pid) if !bg, else the background notice
EvalAfter ==
    /\ MainAt("eval_after")
    /\ IF loc.bg = 0
       THEN WaitfgEntry(loc.pid, "eval_unblock")
       ELSE /\ out' = Msg("bg_notice", pid2jid(jobs, loc.pid), loc.pid, "",
                          loc.cmdline)
            /\ pc' = "eval_unblock"
            /\ UNCHANGED loc
    /\ ret' = -1
    /\ sent' = NoKill
    /\ UNCHANGED <<jobs, stack, mask, pending, proc, exitcode>>

\* sigprocmask(SIG_UNBLOCK, &mask, NULL), and back to the prompt
EvalUnblock ==
    /\ MainAt("eval_unblock")
    /\ mask' = mask \ Tracked
    /\ pc' = "prompt"
    /\ loc' = NoLoc
    /\ Silent
    /\ UNCHANGED <<jobs, stack, pending, proc, exitcode>>

(***************************************************************************)
(* do_bgfg                                                                 *)
(***************************************************************************)
\* lines 261-290: what the argument resolves to; job is NULL on rejection
Resolve(J, argv) ==
    IF Len(argv) < 2
    THEN [job |-> NULL, pid |-> 0,
          msg |-> Msg("requires_argument", 0, 0, "", argv[1])]
    ELSE IF Head(argv[2]) = "%"
    THEN LET jid == atoi(AfterPercent(argv[2]))
             job == getjobjid(J, jid)
         IN  IF jid <= 0
             THEN [job |-> NULL, pid |-> 0,
                   msg |-> Msg("must_be_positive_integer", 0, 0, "", argv[1])]
             ELSE IF job = NULL
             THEN [job |-> NULL, pid |-> 0,
                   msg |-> Msg("no_such_job", 0, 0, "", argv[2])]
             ELSE [job |-> job, pid |-> J[job].pid, msg |-> NoOut]
    ELSE LET pid == atoi(argv[2])
             job == getjobpid(J, pid)
         IN  IF pid <= 0
             THEN [job |-> NULL, pid |-> 0,
                   msg |-> Msg("must_be_pid_or_jobid", 0, 0, "", argv[1])]
             ELSE IF job = NULL
             THEN [job |-> NULL, pid |-> 0,
                   msg |-> Msg("no_such_process", 0, pid, "", <<>>)]
             ELSE [job |-> job, pid |-> pid, msg |-> NoOut]

\* the bg / fg builtin up to the lookup of the job
DoBgfg(cmdline) ==
    /\ MainAt("prompt")
    /\ parseline(cmdline) # 0
    /\ cmdline[1] \in {W_bg, W_fg}
    /\ LET r == Resolve(jobs, cmdline)
       IN  /\ out' = r.msg
           /\ IF r.job = NULL
              THEN UNCHANGED <<pc, loc>>
              ELSE /\ pc' = "bgfg_kill"
                   /\ loc' = [NoLoc EXCEPT !.argv0 = cmdline[1],
                                           !.job = r.job, !.pid = r.pid]
    /\ ret' = -1
    /\ sent' = NoKill
    /\ UNCHANGED <<jobs, stack, mask, pending, proc, exitcode>>

\* kill(-pid, SIGCONT); unix_error("kill error") exits the shell
BgfgKill ==
    /\ MainAt("bgfg_kill")
    /\ IF KillFails(proc, loc.pid)
       THEN Exit(1, Msg("kill_error", 0, 0, "", <<>>))
       ELSE /\ proc' = KillGroup(proc, loc.pid, "SIGCONT")
            /\ pending' = Raise(proc')
            /\ pc' = "bgfg_state"
            /\ out' = NoOut
            /\ ret' = -1
            /\ sent' = Kill(loc.pid, "SIGCONT")
            /\ UNCHANGED <<jobs, loc, stack, mask, exitcode>>

\* do_bgfg's retagging with the bg branch leaving the state as it is
Retag_fg_only(J, job, argv0) ==
    IF argv0 = W_bg THEN J ELSE [J EXCEPT ![job].state = FG]

\* lines 298-303: the table after job->state = BG or job->state = FG
Retag(J, job, argv0) ==
    IF argv0 = W_bg THEN [J EXCEPT ![job].state = BG]
    ELSE [J EXCEPT ![job].state = FG]

\* job->state = BG or job->state = FG, through the pointer looked up before
BgfgState ==
    /\ MainAt("bgfg_state")
    /\ jobs' = Retag(jobs, loc.job, loc.argv0)
    /\ pc' = IF loc.argv0 = W_bg THEN "bgfg_print" ELSE "bgfg_waitfg"
    /\ Silent
    /\ UNCHANGED <<loc, stack, mask, pending, proc, exitcode>>

\* printf("[%d] (%d) %s", job->jid, job->pid, job->cmdline)
BgfgPrint ==
    /\ MainAt("bgfg_print")
    /\ out' = Msg("bg_notice", jobs[loc.job].jid, jobs[loc.job].pid, "",
                  jobs[loc.job].cmdline)
    /\ pc' = "prompt"
    /\ loc' = NoLoc
    /\ ret' = -1
    /\ sent' = NoKill
    /\ UNCHANGED <<jobs, stack, mask, pending, proc, exitcode>>

\* waitfg(job->pid)
BgfgWaitfg ==
    /\ MainAt("bgfg_waitfg")
    /\ WaitfgEntry(jobs[loc.job].pid, "prompt")
    /\ ret' = -1
    /\ sent' = NoKill
    /\ UNCHANGED <<jobs, stack, mask, pending, proc, exitcode>>

(***************************************************************************)
(* waitfg                                                                  *)
(***************************************************************************)
\* waitpid(pid, &status, WUNTRACED): blocks until pid has a status to
\* report; fails (ECHILD) when pid is no child, and unix_error exits
WaitfgWait ==
    /\ MainAt("waitfg_wait")
    /\ IF proc[loc.pid].st = "none"
       THEN Exit(1, Msg("waitpid_error", 0, 0, "", <<>>))
       ELSE /\ Reportable(proc[loc.pid], TRUE, FALSE)
            /\ loc' = [loc EXCEPT !.status = StatusOf(proc[loc.pid])]
            /\ proc' = [proc EXCEPT ![loc.pid] = Waited(proc[loc.pid])]
            /\ pc' = "waitfg_job"
            /\ Silent
            /\ UNCHANGED <<jobs, stack, mask, pending, exitcode>>

\* waitfg removing the job whatever the status is, a stop included
Waited_fg_always_delete(J, pid, status) ==
    LET job == getjobpid(J, pid)
        del == deletejob(J, pid)
    IN  IF job = NULL
        THEN [jobs |-> J, ret |-> -1,
              out |-> Msg("waitfg_no_job", 0, pid, "", <<>>)]
        ELSE IF status.kind = "stopped"
        THEN [jobs |-> del.jobs, ret |-> del.ret,
              out |-> Msg("stopped", J[job].jid, pid, status.sig, <<>>)]
        ELSE IF status.kind = "signaled"
        THEN [jobs |-> del.jobs, ret |-> del.ret,
              out |-> Msg("terminated", J[job].jid, pid, status.sig, <<>>)]
        ELSE [jobs |-> del.jobs, ret |-> del.ret, out |-> NoOut]

\* lines 326-343 for the job of pid and the status waitpid stored: the
\* table after them, the value deletejob returned, and the notice
Waited_fg(J, pid, status) ==
    LET job == getjobpid(J, pid)
        del == deletejob(J, pid)
    IN  IF job = NULL
        THEN [jobs |-> J, ret |-> -1,
              out |-> Msg("waitfg_no_job", 0, pid, "", <<>>)]
        ELSE IF status.kind = "stopped"
        THEN [jobs |-> [J EXCEPT ![job].state = ST], ret |-> -1,
              out |-> Msg("stopped", J[job].jid, pid, status.sig, <<>>)]
        ELSE IF status.kind = "signaled"
        THEN [jobs |-> del.jobs, ret |-> del.ret,
              out |-> Msg("terminated", J[job].jid, pid, status.sig, <<>>)]
        ELSE [jobs |-> del.jobs, ret |-> del.ret, out |-> NoOut]

WaitfgJob ==
    /\ MainAt("waitfg_job")
    /\ LET r == Waited_fg(jobs, loc.pid, loc.status)
       IN  /\ jobs' = r.jobs
           /\ ret' = r.ret
           /\ out' = r.out
    /\ sent' = NoKill
    /\ pc' = loc.retpc
    /\ loc' = IF loc.retpc = "prompt" THEN NoLoc
              ELSE [loc EXCEPT !.status = NoStatus]
    /\ UNCHANGED <<stack, mask, pending, proc, exitcode>>


(***************************************************************************)
(* Signal handlers.  Signal() installs each with an empty sa_mask, so      *)
(* while a handler runs only its own signal is added to the mask.  A frame *)
(* of the stack is a handler that has started and not yet returned; saved  *)
(* is the mask its return restores.                                        *)
(*                                                                         *)
(* SIGCHLD is raised by the kernel when a child changes state and stays    *)
(* pending until it can be delivered.  SIGINT and SIGTSTP come from the    *)
(* terminal, whose process group is the shell's (the children are in       *)
(* groups of their own): one typed while blocked is delivered at the       *)
(* unblocking, which is the same as typing it then, so their arrival and   *)
(* delivery are one step, taken only while the signal is not blocked.      *)
(***************************************************************************)
Frame(h, l, fg_pid, job) ==
    [h |-> h, pc |-> l, fg_pid |-> fg_pid, job |-> job, saved |-> mask]

Top == stack[Len(stack)]

HandlerAt(h, l) ==
    Running /\ stack # <<>> /\ Top.h = h /\ Top.pc = l

Push(f) == stack' = Append(stack, f)

Pop == stack' = SubSeq(stack, 1, Len(stack) - 1)

Goto(l) == stack' = [stack EXCEPT ![Len(stack)].pc = l]

\* sigint_handler is entered and calls fgpid (line 396); it returns at
\* once when there is no foreground job
SigintEntry ==
    /\ Running
    /\ "SIGINT" \notin mask
    /\ IF fgpid(jobs) # 0
       THEN /\ Push(Frame("SIGINT", "kill", fgpid(jobs), NULL))
            /\ mask' = mask \cup {"SIGINT"}
       ELSE UNCHANGED <<stack, mask>>
    /\ Silent
    /\ UNCHANGED <<jobs, pc, loc, pending, proc, exitcode>>

\* kill(-fg_pid, SIGINT), result ignored; the handler returns
SigintKill ==
    /\ HandlerAt("SIGINT", "kill")
    /\ proc' = KillGroup(proc, Top.fg_pid, "SIGINT")
    /\ pending' = Raise(proc')
    /\ sent' = Kill(Top.fg_pid, "SIGINT")
    /\ Pop
    /\ mask' = Top.saved
    /\ out' = NoOut
    /\ ret' = -1
    /\ UNCHANGED <<jobs, pc, loc, exitcode>>

\* sigtstp_handler is entered and calls fgpid (line 409)
SigtstpEntry ==
    /\ Running
    /\ "SIGTSTP" \notin mask
    /\ IF fgpid(jobs) # 0
       THEN /\ Push(Frame("SIGTSTP", "kill", fgpid(jobs), NULL))
            /\ mask' = mask \cup {"SIGTSTP"}
       ELSE UNCHANGED <<stack, mask>>
    /\ Silent
    /\ UNCHANGED <<jobs, pc, loc, pending, proc, exitcode>>

\* kill(-fg_pid, SIGTSTP)
SigtstpKill ==
    /\ HandlerAt("SIGTSTP", "kill")
    /\ proc' = KillGroup(proc, Top.fg_pid, "SIGTSTP")
    /\ pending' = Raise(proc')
    /\ sent' = Kill(Top.fg_pid, "SIGTSTP")
    /\ Goto("getjob")
    /\ out' = NoOut
    /\ ret' = -1
    /\ UNCHANGED <<jobs, pc, loc, mask, exitcode>>

\* job = getjobpid(jobs, fg_pid); the handler returns if it is NULL
SigtstpGetjob ==
    /\ HandlerAt("SIGTSTP", "getjob")
    /\ IF getjobpid(jobs, Top.fg_pid) = NULL
       THEN Pop /\ mask' = Top.saved
       ELSE /\ stack' = [stack EXCEPT
                           ![Len(stack)].pc = "setst",
                           ![Len(stack)].job = getjobpid(jobs, Top.fg_pid)]
            /\ UNCHANGED mask
    /\ Silent
    /\ UNCHANGED <<jobs, pc, loc, pending, proc, exitcode>>

\* job->state = ST; the handler returns
SigtstpSetst ==
    /\ HandlerAt("SIGTSTP", "setst")
    /\ jobs' = [jobs EXCEPT ![Top.job].state = ST]
    /\ Pop
    /\ mask' = Top.saved
    /\ Silent
    /\ UNCHANGED <<pc, loc, pending, proc, exitcode>>

\* sigchld_handler is entered and blocks every signal (lines 355-361)
SigchldEntry ==
    /\ Running
    /\ "SIGCHLD" \in pending
    /\ "SIGCHLD" \notin mask
    /\ pending' = pending \ {"SIGCHLD"}
    /\ Push(Frame("SIGCHLD", "loop", 0, NULL))
    /\ mask' = AllSigs
    /\ Silent
    /\ UNCHANGED <<jobs, pc, loc, proc, exitcode>>

\* the handler's loop leaving the job of a child that exited in the table
Reaped_keep_exited(J, pid, status) ==
    LET job == getjobpid(J, pid)
        del == deletejob(J, pid)
    IN  IF job = NULL
        THEN [jobs |-> J, ret |-> -1,
              out |-> Msg("sigchld_no_job", 0, pid, "", <<>>)]
        ELSE IF status.kind = "exited"
        THEN [jobs |-> J, ret |-> -1,
              out |-> Msg("exited", J[job].jid, pid, "", <<>>)]
        ELSE IF status.kind = "signaled"
        THEN [jobs |-> del.jobs, ret |-> del.ret,
              out |-> Msg("terminated", J[job].jid, pid, status.sig, <<>>)]
        ELSE IF status.kind = "stopped"
        THEN [jobs |-> [J EXCEPT ![job].state = ST], ret |-> -1,
              out |-> Msg("stopped", J[job].jid, pid, status.sig, <<>>)]
        ELSE [jobs |-> [J EXCEPT ![job].state = BG], ret |-> -1,
              out |-> Msg("continued", J[job].jid, pid, "", <<>>)]

\* what one turn of the loop of lines 363-387 does for reaped child pid
\* with wait status status: the table after it, the value deletejob
\* returned, and the notice
Reaped(J, pid, status) ==
    LET job == getjobpid(J, pid)
        del == deletejob(J, pid)
    IN  IF job = NULL
        THEN [jobs |-> J, ret |-> -1,
              out |-> Msg("sigchld_no_job", 0, pid, "", <<>>)]
        ELSE IF status.kind = "exited"
        THEN [jobs |-> del.jobs, ret |-> del.ret,
              out |-> Msg("exited", del.jobs[job].jid, pid, "", <<>>)]
        ELSE IF status.kind = "signaled"
        THEN [jobs |-> del.jobs, ret |-> del.ret,
              out |-> Msg("terminated", J[job].jid, pid, status.sig, <<>>)]
        ELSE IF status.kind = "stopped"
        THEN [jobs |-> [J EXCEPT ![job].state = ST], ret |-> -1,
              out |-> Msg("stopped", J[job].jid, pid, status.sig, <<>>)]
        ELSE [jobs |-> [J EXCEPT ![job].state = BG], ret |-> -1,
              out |-> Msg("continued", J[job].jid, pid, "", <<>>)]

\* waitpid(-1, &status, WNOHANG | WUNTRACED | WCONTINUED) returns child p
SigchldReap(p) ==
    /\ HandlerAt("SIGCHLD", "loop")
    /\ Reportable(proc[p], TRUE, TRUE)
    /\ proc' = [proc EXCEPT ![p] = Waited(proc[p])]
    /\ LET r == Reaped(jobs, p, StatusOf(proc[p]))
       IN  /\ jobs' = r.jobs
           /\ ret' = r.ret
           /\ out' = r.out
    /\ sent' = NoKill
    /\ UNCHANGED <<pc, loc, stack, mask, pending, exitcode>>

\* a handler that may leave its loop while children still have a status
\* to report
Drained_any(P) == TRUE

\* the loop condition of line 363 fails: waitpid(-1, ..., WNOHANG | ...)
\* returns 0 or -1, no child has a status to report
Drained(P) == \A p \in Pids : ~Reportable(P[p], TRUE, TRUE)

\* waitpid returns 0 or -1: the mask is restored and the handler returns
SigchldReturn ==
    /\ HandlerAt("SIGCHLD", "loop")
    /\ Drained(proc)
    /\ Pop
    /\ mask' = Top.saved
    /\ Silent
    /\ UNCHANGED <<jobs, pc, loc, pending, proc, exitcode>>

\* sigquit_handler: print and exit(1)
Sigquit ==
    /\ Running
    /\ "SIGQUIT" \notin mask
    /\ Exit(1, Msg("sigquit", 0, 0, "", <<>>))

(***************************************************************************)
(* The world outside the shell.                                            *)
(***************************************************************************)
\* a running child exits
ChildExit(p) ==
    /\ Running
    /\ proc[p].st = "run"
    /\ proc' = [proc EXCEPT ![p] = Zombie("")]
    /\ pending' = pending \cup {"SIGCHLD"}
    /\ Silent
    /\ UNCHANGED <<jobs, pc, loc, stack, mask, exitcode>>

Next ==
    \/ \E c \in CmdLines :
          EvalEmpty(c) \/ Quit(c) \/ BuiltinJobs(c) \/ EvalBlock(c) \/ DoBgfg(c)
    \/ Eof
    \/ EvalFork \/ EvalAddjob \/ EvalAfter \/ EvalUnblock
    \/ BgfgKill \/ BgfgState \/ BgfgPrint \/ BgfgWaitfg
    \/ WaitfgWait \/ WaitfgJob
    \/ SigintEntry \/ SigintKill
    \/ SigtstpEntry \/ SigtstpKill \/ SigtstpGetjob \/ SigtstpSetst
    \/ SigchldEntry \/ SigchldReturn
    \/ \E p \in Pids : SigchldReap(p) \/ ChildExit(p)
    \/ Sigquit

Spec == Init /\ [][Next]_vars


(***************************************************************************)
(* The job table on its own: any sequence of addjob and deletejob calls,   *)
(* with the pids a caller can pass (no pid is registered twice: the kernel *)
(* gives a new child a pid no live child has).                             *)
(***************************************************************************)
TableAdd(pid, state, cmdline) ==
    /\ \A i \in Slots : pid < 1 \/ jobs[i].pid # pid
    /\ LET r == addjob(jobs, pid, state, cmdline)
       IN  /\ jobs' = r.jobs
           /\ ret' = r.ret
           /\ out' = Msg(r.msg, 0, 0, "", <<>>)
    /\ pc' = "called_addjob"
    /\ loc' = [NoLoc EXCEPT !.pid = pid, !.cmdline = cmdline]
    /\ UNCHANGED <<stack, mask, pending, proc, sent, exitcode>>

TableDelete(pid) ==
    /\ LET r == deletejob(jobs, pid)
       IN  /\ jobs' = r.jobs
           /\ ret' = r.ret
    /\ out' = NoOut
    /\ pc' = "called_deletejob"
    /\ loc' = [NoLoc EXCEPT !.pid = pid]
    /\ UNCHANGED <<stack, mask, pending, proc, sent, exitcode>>

NextJobs ==
    \/ \E pid \in -1..NPIDS, state \in {FG, BG, ST}, c \in Programs :
          TableAdd(pid, state, c)
    \/ \E pid \in -1..NPIDS : TableDelete(pid)

SpecJobs == Init /\ [][NextJobs]_vars


(***************************************************************************)
(* Properties.                                                             *)
(***************************************************************************)
\* the slots that hold a job, and the job ids in use
Live(J) == {i \in Slots : J[i].pid # 0}

LiveJids(J) == {J[i].jid : i \in Live(J)}

Full(J) == Live(J) = Slots

\* the smallest positive integer that is the job id of no live job
SmallestUnused(J) ==
    CHOOSE n \in 1..(MAXJOBS + 1) :
        n \notin LiveJids(J) /\ \A m \in 1..(n - 1) : m \in LiveJids(J)

\* C1: over any sequence of addjob and deletejob calls, a slot that
\* becomes occupied gets the smallest positive integer that was the job id
\* of no live job when addjob was called.
C1_SmallestUnusedJid ==
    [][\A i \in Slots :
          (jobs[i].pid = 0 /\ jobs'[i].pid # 0)
              => jobs'[i].jid = SmallestUnused(jobs)]_vars

\* an addjob that succeeded into slot 1 while slot 2 held a job: job id 1
\* was free again and job id 2 was not
C1_Witness ==
    /\ pc = "called_addjob"
    /\ ret = 1
    /\ jobs[1].pid = loc.pid
    /\ jobs[1].jid = 1
    /\ jobs[2].pid # 0
    /\ jobs[2].jid = 2

\* C2: in every state of the shell no two occupied slots hold the same job
\* id or the same pid, and a slot only takes a job id that no live job
\* held in the state before.
UniqueIds ==
    \A i, k \in Slots :
        (i # k /\ jobs[i].pid # 0 /\ jobs[k].pid # 0)
            => (jobs[i].jid # jobs[k].jid /\ jobs[i].pid # jobs[k].pid)

ReusedOnlyWhenFree ==
    \A i \in Slots :
        (jobs'[i].pid # 0 /\ jobs'[i].jid # jobs[i].jid)
            => jobs'[i].jid \notin LiveJids(jobs)

C2_UniqueJidAndPid == []UniqueIds /\ [][ReusedOnlyWhenFree]_vars

\* two jobs in the table while a handler interrupts do_bgfg
C2_Witness ==
    /\ Full(jobs)
    /\ pc = "bgfg_state"
    /\ stack # <<>>

\* C4: addjob on a full table with a positive pid returns 0, prints the
\* "too many jobs" report and leaves the table as it was; addjob with a
\* pid below 1 returns 0 and leaves the table as it was.
C4_FullTableRejects ==
    [][(pc' = "called_addjob" /\ (Full(jobs) \/ loc'.pid < 1))
          => /\ jobs' = jobs
             /\ ret' = 0
             /\ (loc'.pid >= 1 => out'.msg = "too_many_jobs")]_vars

\* addjob was called with a positive pid on a full table
C4_Witness ==
    /\ pc = "called_addjob"
    /\ Full(jobs)
    /\ loc.pid >= 1
    /\ \A i \in Slots : jobs[i].pid # loc.pid
    /\ ret = 0
    /\ out.msg = "too_many_jobs"


\* C3: in every state at most one slot of the table is in state FG.
C3_AtMostOneForeground ==
    Cardinality({i \in Slots : jobs[i].state = FG}) <= 1

\* the same, counting only the slots that hold a job
C3_AtMostOneLiveForeground ==
    Cardinality({i \in Slots : jobs[i].state = FG /\ jobs[i].pid # 0}) <= 1


\* the shell is blocked in waitfg on a job whose process is running, and
\* nothing keeps a SIGINT from being delivered
WaitingOnRunning ==
    /\ pc = "waitfg_wait"
    /\ stack = <<>>
    /\ "SIGINT" \notin mask
    /\ proc[loc.pid].st = "run"

\* C5: a SIGINT that reaches the shell while a job runs in the foreground
\* is relayed to that job's process group.  sigint_handler relays to
\* fgpid(jobs), so whenever the shell waits on a running foreground job,
\* fgpid must be that job's pid.
C5_InterruptReachesForegroundJob ==
    WaitingOnRunning => fgpid(jobs) = loc.pid


\* the bg command is at pc l and the slot it looked up still holds the job
BgAt(l) ==
    /\ MainAt(l)
    /\ loc.argv0 = W_bg
    /\ jobs[loc.job].pid = loc.pid

IsPositiveInteger(w) ==
    /\ w # <<>>
    /\ \A i \in 1..Len(w) : IsDigit(w[i])
    /\ \E i \in 1..Len(w) : w[i] # "0"

\* the word is %<job id> or <pid> of a job in the table
RefersToJob(J, w) ==
    IF Head(w) = "%"
    THEN /\ IsPositiveInteger(Tail(w))
         /\ \E i \in Live(J) : J[i].jid = atoi(Tail(w))
    ELSE /\ IsPositiveInteger(w)
         /\ \E i \in Live(J) : J[i].pid = atoi(w)

\* the messages that reject a bg / fg command line with a bad argument:
\* one for a missing argument, two for an argument that is not a positive
\* integer, two for one that names no job
Rejection(c) ==
    IF Len(c) < 2 THEN {"requires_argument"}
    ELSE IF Head(c[2]) = "%"
    THEN (IF IsPositiveInteger(Tail(c[2])) THEN {"no_such_job"}
          ELSE {"must_be_positive_integer", "no_such_job"})
    ELSE (IF IsPositiveInteger(c[2]) THEN {"no_such_process"}
          ELSE {"must_be_pid_or_jobid", "no_such_process"})

\* C7: a bg or fg command whose argument is missing, is not a positive
\* integer (after the % if there is one), or names no job of the table is
\* rejected with the message of its case, sends no signal and leaves the
\* table as it was.
C7_BadReferenceRejected ==
    [][\A c \in CmdLines :
          (/\ parseline(c) # 0
           /\ c[1] \in {W_bg, W_fg}
           /\ DoBgfg(c)
           /\ (Len(c) < 2 \/ ~RefersToJob(jobs, c[2])))
              => /\ pc' = "prompt"
                 /\ out'.msg \in Rejection(c)
                 /\ sent' = NoKill
                 /\ jobs' = jobs]_vars


\* C8: a launch that creates a child while the table holds no job leaves
\* exactly one job in the table, in state BG, with the child's pid and the
\* command line; eval then prints the notice and returns to the prompt
\* without a wait; and when sigchld_handler reaps the exited child of the
\* only job of the table, the table holds no job afterwards.
C8_BackgroundLaunch ==
    [][/\ (MainAt("eval_addjob") /\ pc' = "eval_after"
              /\ loc.pid >= 1 /\ Live(jobs) = {})
            => /\ Len(listjobs(jobs')) = 1
               /\ listjobs(jobs')[1].state = BG
               /\ listjobs(jobs')[1].pid = loc.pid
               /\ listjobs(jobs')[1].cmdline = loc.cmdline
       /\ (MainAt("eval_after") /\ pc' # pc)
            => (pc' \in {"eval_unblock", "exited"} /\ jobs' \in {jobs, initjobs})
       /\ (MainAt("eval_unblock") /\ pc' # pc)
            => (pc' \in {"prompt", "exited"} /\ jobs' \in {jobs, initjobs})
       /\ \A p \in Pids :
            (/\ HandlerAt("SIGCHLD", "loop")
             /\ proc[p].st = "zomb"
             /\ proc'[p].st = "none"
             /\ Len(listjobs(jobs)) = 1
             /\ listjobs(jobs)[1].pid = p)
                => listjobs(jobs') = <<>>]_vars

\* sigchld_handler has just removed the only job of the table, a
\* background job whose child exited
C8_Witness ==
    /\ HandlerAt("SIGCHLD", "loop")
    /\ pc = "prompt"
    /\ out.msg = "exited"
    /\ ret = 1
    /\ Live(jobs) = {}
    /\ \A p \in Pids : proc[p].st = "none"

\* C9: the shell exits with a failure status only on SIGQUIT.
C9_OnlySigquitIsFatal ==
    exitcode = 1 => out.msg = "sigquit"

\* C10: a slot that held a job is cleared only when the job's process has
\* been reaped as exited or killed: the step that clears it either reaps
\* the zombie itself (sigchld_handler) or follows the waitpid of waitfg
\* that returned an exit or a death by signal.
C10_RemovedOnlyWhenTerminated ==
    [][\A i \in Slots :
          (jobs[i].pid # 0 /\ jobs'[i].pid # jobs[i].pid /\ exitcode' = -1)
              => /\ proc'[jobs[i].pid].st = "none"
                 /\ \/ proc[jobs[i].pid].st = "zomb"
                    \/ /\ proc[jobs[i].pid].st = "none"
                       /\ pc = "waitfg_job"
                       /\ loc.pid = jobs[i].pid
                       /\ loc.status.kind \in {"exited", "signaled"}]_vars

\* waitfg has removed the job it waited for, which a signal killed
C10_Witness ==
    /\ pc = "prompt"
    /\ stack = <<>>
    /\ out.msg = "terminated"
    /\ ret = 1
    /\ getjobpid(jobs, out.pid) = NULL
    /\ proc[out.pid].st = "none"


\* the children of the shell that are alive, running or stopped
LiveChildren == {p \in Pids : proc[p].st \in {"run", "stop"}}

\* C11: once a launch has completed and the shell is back at its prompt,
\* every live child of the shell has an occupied slot carrying its pid.
C11_NoOrphanAfterLaunch ==
    (MainAt("prompt") /\ stack = <<>>)
        => \A p \in LiveChildren : getjobpid(jobs, p) # NULL


\* eval is between its sigprocmask(SIG_BLOCK) and its sigprocmask(SIG_UNBLOCK)
InLaunch == pc \in {"eval_fork", "eval_addjob", "eval_after", "eval_unblock"}

\* from before the fork until after addjob the three signals are blocked
\* and no handler is running
LaunchBlocksHandlers == InLaunch => (Tracked \subseteq mask /\ stack = <<>>)

\* C12: no handler runs between the fork of a child and the registration
\* of its job, and sigchld_handler never finds a child of the shell
\* without a job ("No job found").
C12_RegisteredBeforeHandled ==
    /\ LaunchBlocksHandlers
    /\ out.msg # "sigchld_no_job"


\* C13: while a handler of SIGCHLD, SIGINT or SIGTSTP runs, every signal
\* is blocked, so no second handler is ever started on top of it.
C13_HandlersBlockAllSignals ==
    stack # <<>> => (mask = AllSigs /\ Len(stack) = 1)


\* the positions of the main flow whose next step reads or writes the job
\* table: addjob and pid2jid in eval, the retagging, the notice and the
\* waitfg call of do_bgfg, the bookkeeping of waitfg
TableAccessPcs ==
    {"eval_addjob", "eval_after",
     "bgfg_state", "bgfg_print", "bgfg_waitfg", "waitfg_job"}

\* C14: whenever the main flow is about to read or write the job table,
\* SIGCHLD, SIGINT and SIGTSTP are blocked; and no handler runs between
\* do_bgfg's lookup of a job and its use of the slot.
C14_MainFlowAccessesBlocked ==
    /\ (stack = <<>> /\ pc \in TableAccessPcs) => Tracked \subseteq mask
    /\ pc \in {"bgfg_kill", "bgfg_state", "bgfg_print", "bgfg_waitfg"}
          => stack = <<>>


\* waitfg is blocked in waitpid(pid, &status, WUNTRACED) for a job that
\* is Stopped in the table or is no longer in it
WaitingOnStoppedOrGone ==
    /\ MainAt("waitfg_wait")
    /\ \/ getjobpid(jobs, loc.pid) = NULL
       \/ jobs[getjobpid(jobs, loc.pid)].state = ST

\* that waitpid can return a status, after which waitfg leaves its loop
\* and control goes back to the prompt
WaitCanReturn ==
    /\ proc[loc.pid].st # "none"
    /\ Reportable(proc[loc.pid], TRUE, FALSE)

\* C15: whenever the job waitfg waits for is Stopped or has been removed,
\* waitfg's waitpid returns a status and the waiter goes back to the
\* prompt: the shell is never left blocked, and never ended, in the wait
\* for such a job.
C15_WaiterEndsOnStoppedOrGone ==
    WaitingOnStoppedOrGone => WaitCanReturn


\* C16: when sigchld_handler reaps a terminated child that has a job, the
\* job is removed and the notice carries the job id the job had in the
\* table, the child's pid and the signal that killed it, if any.
C16_NoticeCarriesJobId ==
    [][\A p \in Pids :
          (/\ HandlerAt("SIGCHLD", "loop")
           /\ proc[p].st = "zomb"
           /\ proc'[p].st = "none"
           /\ getjobpid(jobs, p) # NULL)
              => /\ getjobpid(jobs', p) = NULL
                 /\ out'.msg = (IF proc[p].sig = "" THEN "exited"
                                ELSE "terminated")
                 /\ out'.jid = jobs[getjobpid(jobs, p)].jid
                 /\ out'.pid = p
                 /\ out'.sig = proc[p].sig]_vars


\* sigchld_handler is running, at any depth of the handler stack
InSigchld == \E k \in 1..Len(stack) : stack[k].h = "SIGCHLD"

\* a child has a status change that no waitpid has returned yet
Unreported(p) == Reportable(proc[p], TRUE, TRUE)

ForegroundSlots == {i \in Live(jobs) : jobs[i].state = FG}

\* the marking both paths apply for a stop of the job of pid: its state
\* becomes ST, nothing else changes
MarkStopped(J, pid) == [J EXCEPT ![getjobpid(J, pid)].state = ST]

\* C18: when a job is in the foreground, sigtstp_handler finds it (fgpid
\* returns its pid), sends SIGTSTP to its process group and marks it
\* Stopped, changing nothing else; the handler's marking and
\* sigchld_handler's marking of the stop give the same table whether
\* applied once, twice or in either order.
C18_StopRelayMarksStopped ==
    /\ [](ForegroundSlots # {}
             => \E i \in ForegroundSlots : fgpid(jobs) = jobs[i].pid)
    /\ [][/\ (/\ HandlerAt("SIGTSTP", "kill")
              /\ Len(stack') = Len(stack) /\ stack' # stack)
               => sent' = Kill(Top.fg_pid, "SIGTSTP")
          /\ (/\ HandlerAt("SIGTSTP", "setst")
              /\ Len(stack') < Len(stack) /\ exitcode' = -1)
               => /\ getjobpid(jobs, Top.fg_pid) # NULL
                  /\ jobs' = MarkStopped(jobs, Top.fg_pid)
                  /\ MarkStopped(jobs', Top.fg_pid) = jobs'
                  /\ Reaped(jobs', Top.fg_pid,
                            [kind |-> "stopped", sig |-> "SIGTSTP"]).jobs = jobs'
                  /\ MarkStopped(Reaped(jobs, Top.fg_pid,
                            [kind |-> "stopped", sig |-> "SIGTSTP"]).jobs,
                            Top.fg_pid) = jobs']_vars


\* the fg command is in waitfg's waitpid for a job that is in the table
\* and whose process is running
FgWaitsOnRunningJob ==
    /\ Running
    /\ pc = "waitfg_wait"
    /\ loc.argv0 = W_fg
    /\ getjobpid(jobs, loc.pid) # NULL
    /\ proc[loc.pid].st = "run"

\* C19: while fg waits in waitfg for a job whose process is running, the
\* job's state in the table is FG, whatever handlers have run or are
\* running during the wait.
C19_AwaitedJobStaysForeground ==
    FgWaitsOnRunningJob => jobs[getjobpid(jobs, loc.pid)].state = FG


\* a slot is free or holds a job
FreeSlot(j) == j.pid = 0 /\ j.jid = 0 /\ j.state = UNDEF

OccupiedSlot(j) == j.pid > 0 /\ j.jid > 0 /\ j.state \in {FG, BG, ST}

\* C20: in every state each slot of the table is either free (pid 0, jid
\* 0, state UNDEF) or occupied (pid > 0, jid > 0, state FG, BG or ST).
C20_SlotsWellFormed ==
    \A i \in Slots : FreeSlot(jobs[i]) \/ OccupiedSlot(jobs[i])

====
